---- MODULE Spec2Model ----
(***************************************************************************)
(* print_bytes: console-aware output of byte strings and OS strings.       *)
(*                                                                         *)
(* The model follows src/src/lib.rs (write_lossy, println_lossy),          *)
(* src/src/console.rs (Console::from_handle, write_wide, write_wide_all),  *)
(* src/src/bytes.rs (ToBytes::to_bytes / to_wide) and the historical       *)
(* variant of the console layer kept in src/src/windows.rs and             *)
(* src/src/unix.rs (Console::from_handle, Console::write_os, write_os).    *)
(* Callers are taken from the tests: several writes on one destination     *)
(* (tests/specialization.rs, test_multiple_writes), also through a         *)
(* BufWriter or LineWriter (lib.rs:159-173), and one write for every type  *)
(* that implements ToBytes (test_implementations).                         *)
(*                                                                         *)
(* Bytes are integers 0..255, UTF-16 code units are integers 0..65535.     *)
(***************************************************************************)
EXTENDS Integers, Sequences, FiniteSets, TLC

(***************************************************************************)
(* Bounds of the model.                                                    *)
(***************************************************************************)
\* longest byte string written
MaxBytes == 3
\* longest wide string (UTF-16 code units) written
MaxUnits == 3
\* how many times the console primitive may fail with Interrupted in one call
MaxInterrupts == 2
\* the largest count one WriteConsoleW call can be asked for: u32::MAX of
\* console.rs:58, scaled down so that a wide string can be longer than it
DwordMax == 2

(***************************************************************************)
(* Program constants.                                                      *)
(***************************************************************************)
\* console.rs:10, windows_sys INVALID_HANDLE_VALUE = -1
INVALID_HANDLE_VALUE == -1
\* std::char::REPLACEMENT_CHARACTER, U+FFFD (tests/bin_writer.rs:1)
REPLACEMENT_CHARACTER == 65533

(***************************************************************************)
(* Input alphabets.  Bytes: 'f' (66), two continuation bytes (80, BF), a   *)
(* two-byte lead (C3), the three-byte lead whose second byte is restricted *)
(* (ED) and a four-byte lead (F1).  Units: 'f', the BMP unit U+20AC, a     *)
(* high surrogate (D83D) and a low surrogate (DCA9).                       *)
(***************************************************************************)
ByteAlphabet == {102, 128, 191, 195, 237, 241}

UnitAlphabet == {102, 8364, 55357, 56489}

RECURSIVE SeqsUpTo(_, _)
SeqsUpTo(S, n) ==
    IF n = 0 THEN {<<>>}
    ELSE LET shorter == SeqsUpTo(S, n - 1)
         IN  shorter \cup {Append(s, x) : s \in {t \in shorter : Len(t) = n - 1}, x \in S}

Min(a, b) == IF a <= b THEN a ELSE b

Drop(s, n) == SubSeq(s, n + 1, Len(s))

Take(s, n) == SubSeq(s, 1, n)

(***************************************************************************)
(* UTF-8.  Utf8Chunk is the step of core::str::Utf8Chunks, which           *)
(* String::from_utf8_lossy (lib.rs:278) iterates: at position i it finds   *)
(* either a well-formed character or a maximal ill-formed subpart.         *)
(***************************************************************************)
IsCont(x) == x >= 128 /\ x <= 191

Utf8Chunk(b, i) ==
    LET n == Len(b)
        b0 == b[i]
        ok2(lo, hi) == i + 1 <= n /\ b[i + 1] >= lo /\ b[i + 1] <= hi
        ok3 == i + 2 <= n /\ IsCont(b[i + 2])
        ok4 == i + 3 <= n /\ IsCont(b[i + 3])
    IN  IF b0 < 128 THEN [len |-> 1, ok |-> TRUE]
        ELSE IF b0 >= 194 /\ b0 <= 223 THEN
            IF ok2(128, 191) THEN [len |-> 2, ok |-> TRUE]
            ELSE [len |-> 1, ok |-> FALSE]
        ELSE IF b0 >= 224 /\ b0 <= 239 THEN
            IF ~ok2(IF b0 = 224 THEN 160 ELSE 128, IF b0 = 237 THEN 159 ELSE 191)
            THEN [len |-> 1, ok |-> FALSE]
            ELSE IF ~ok3 THEN [len |-> 2, ok |-> FALSE]
            ELSE [len |-> 3, ok |-> TRUE]
        ELSE IF b0 >= 240 /\ b0 <= 244 THEN
            IF ~ok2(IF b0 = 240 THEN 144 ELSE 128, IF b0 = 244 THEN 143 ELSE 191)
            THEN [len |-> 1, ok |-> FALSE]
            ELSE IF ~ok3 THEN [len |-> 2, ok |-> FALSE]
            ELSE IF ~ok4 THEN [len |-> 3, ok |-> FALSE]
            ELSE [len |-> 4, ok |-> TRUE]
        ELSE [len |-> 1, ok |-> FALSE]

\* char::encode_utf8, also used by WTF-8 for surrogate code points
EncodeCp(cp) ==
    IF cp < 128 THEN <<cp>>
    ELSE IF cp < 2048 THEN <<192 + (cp \div 64), 128 + (cp % 64)>>
    ELSE IF cp < 65536 THEN
        <<224 + (cp \div 4096), 128 + ((cp \div 64) % 64), 128 + (cp % 64)>>
    ELSE <<240 + (cp \div 262144), 128 + ((cp \div 4096) % 64),
           128 + ((cp \div 64) % 64), 128 + (cp % 64)>>

RECURSIVE from_utf8_lossy_at(_, _)
from_utf8_lossy_at(b, i) ==
    IF i > Len(b) THEN <<>>
    ELSE LET c == Utf8Chunk(b, i)
         IN  (IF c.ok THEN SubSeq(b, i, i + c.len - 1)
              ELSE EncodeCp(REPLACEMENT_CHARACTER))
             \o from_utf8_lossy_at(b, i + c.len)

\* String::from_utf8_lossy(string).as_bytes(), lib.rs:278-279
from_utf8_lossy(b) == from_utf8_lossy_at(b, 1)

(***************************************************************************)
(* UTF-16 and WTF-8, the representation of OsStr on Windows.               *)
(***************************************************************************)
IsHigh(u) == u >= 55296 /\ u <= 56319

IsLow(u) == u >= 56320 /\ u <= 57343

RECURSIVE from_wide_at(_, _)
from_wide_at(w, i) ==
    IF i > Len(w) THEN <<>>
    ELSE IF IsHigh(w[i]) /\ i < Len(w) /\ IsLow(w[i + 1]) THEN
        EncodeCp(65536 + (w[i] - 55296) * 1024 + (w[i + 1] - 56320))
        \o from_wide_at(w, i + 2)
    ELSE EncodeCp(w[i]) \o from_wide_at(w, i + 1)

\* OsString::from_wide: the WTF-8 bytes an OsString holds for these units
from_wide(w) == from_wide_at(w, 1)

\* the code point encoded at position i of well-formed WTF-8, and its width
Wtf8CodePoint(b, i) ==
    LET b0 == b[i]
    IN  IF b0 < 128 THEN [cp |-> b0, len |-> 1]
        ELSE IF b0 < 224 THEN
            [cp |-> (b0 - 192) * 64 + (b[i + 1] - 128), len |-> 2]
        ELSE IF b0 < 240 THEN
            [cp |-> (b0 - 224) * 4096 + (b[i + 1] - 128) * 64 + (b[i + 2] - 128),
             len |-> 3]
        ELSE [cp |-> (b0 - 240) * 262144 + (b[i + 1] - 128) * 4096
                     + (b[i + 2] - 128) * 64 + (b[i + 3] - 128),
              len |-> 4]

RECURSIVE encode_wide_at(_, _)
encode_wide_at(b, i) ==
    IF i > Len(b) THEN <<>>
    ELSE LET c == Wtf8CodePoint(b, i)
         IN  (IF c.cp < 65536 THEN <<c.cp>>
              ELSE <<55296 + ((c.cp - 65536) \div 1024),
                     56320 + ((c.cp - 65536) % 1024)>>)
             \o encode_wide_at(b, i + c.len)

\* OsStr::encode_wide().collect(), bytes.rs:216
encode_wide(b) == encode_wide_at(b, 1)

RECURSIVE to_string_lossy_at(_, _)
to_string_lossy_at(b, i) ==
    IF i > Len(b) THEN <<>>
    ELSE LET c == Wtf8CodePoint(b, i)
         IN  (IF c.cp >= 55296 /\ c.cp <= 57343
              THEN EncodeCp(REPLACEMENT_CHARACTER)
              ELSE SubSeq(b, i, i + c.len - 1))
             \o to_string_lossy_at(b, i + c.len)

\* OsStr::to_string_lossy() on Windows, bytes.rs:184
to_string_lossy(b) == to_string_lossy_at(b, 1)

(***************************************************************************)
(* State of one call of the library.                                       *)
(***************************************************************************)
VARIABLES
    cfg_windows,    \* cfg(windows): the platform the crate is built for
    api,            \* the entry point called: "write_lossy" (lib.rs) or the
                    \* historical "write_os" (windows.rs / unix.rs)
    writer,         \* the destination: [kind, is_console, handle]
    console_mode,   \* what GetConsoleMode answers for the writer's handle:
                    \* [ok, mode]
    prim,           \* the console write primitive: the OS ("os") or a mock
    value,          \* the value written: [kind, bytes, units]
    pc,             \* "idle", "write_wide_all", "write_os", "done"
    string,         \* the unwritten suffix of the console writer loop
    result,         \* what the entry point returned
    wide_result,    \* what the console writer loop returned
    cap,            \* whether the call obtained a console capability
    queried,        \* the handles passed to GetConsoleMode, in order
    wide_arg,       \* the wide view handed to the console writer loop
    write_all_args, \* the arguments of the writer's write_all calls, in order
    buffer,         \* the bytes the writer's sink accepted
    console_out,    \* the units the console device consumed
    last_suffix,    \* the buffer handed to the last console primitive call
    last_length,    \* the count the last console primitive call was asked for
    last_outcome,   \* what the last console primitive call reported
    interrupts,     \* how many primitive calls failed with Interrupted
    zero_seen,      \* some primitive call reported Ok(0)
    failed_with     \* the first other OS error a primitive call reported

call_vars ==
    <<cfg_windows, api, writer, console_mode, prim, value, pc, string, result,
      wide_result, cap, queried, wide_arg, write_all_args, buffer, console_out,
      last_suffix, last_length, last_outcome, interrupts, zero_seen,
      failed_with>>

(***************************************************************************)
(* State of the threads that call println_lossy / eprintln_lossy.          *)
(***************************************************************************)
VARIABLES
    th_stream,      \* the standard stream each thread prints to
    th_pc,          \* "start", "value", "newline", "drop", "done", "panicked"
    th_left,        \* the device writes the thread's value still needs
    lock_owner,     \* the thread holding each stream's lock, 0 for none
    stream_log      \* the writes each stream's device received, in order

thr_vars == <<th_stream, th_pc, th_left, lock_owner, stream_log>>

(***************************************************************************)
(* State of a caller that makes several calls on one destination.          *)
(***************************************************************************)
VARIABLES
    issued,         \* what the caller wrote to the destination, in call order
    flushed         \* how many of the bytes a BufWriter / LineWriter accepted
                    \* it has passed on to its inner writer

ses_vars == <<issued, flushed>>

vars == <<call_vars, thr_vars, ses_vars>>

(***************************************************************************)
(* Results.  io::Result<()> is Ok(()) or an io::Error, which is either an  *)
(* OS error (io::Error::last_os_error, console.rs:20) or a custom error    *)
(* made by the library (io::Error::new, console.rs:80).                    *)
(***************************************************************************)
Pending == [tag |-> "Pending"]

Ok == [tag |-> "Ok"]

OsError(kind) == [tag |-> "Err", kind |-> kind, repr |-> "os"]

CustomError(kind) == [tag |-> "Err", kind |-> kind, repr |-> "custom"]

\* the kinds io::Error::last_os_error() can have after a failed syscall
OsErrorKinds == {"Interrupted", "BrokenPipe", "Other"}

\* the call did not return: it panicked and the panic unwinds to the caller
Panicked == [tag |-> "Panic"]

None == [some |-> FALSE, units |-> <<>>]

Some(units) == [some |-> TRUE, units |-> units]

NoOutcome == [tag |-> "None"]

(***************************************************************************)
(* Values: impl ToBytes (bytes.rs).                                        *)
(***************************************************************************)
BytesValue(b) == [kind |-> "bytes", bytes |-> b, units |-> <<>>]

\* an OsString built from wide units (Windows) holds their WTF-8 bytes
OsValueWide(w) == [kind |-> "os", bytes |-> from_wide(w), units |-> w]

\* an OsString on the other platforms holds arbitrary bytes
OsValueBytes(b) == [kind |-> "os", bytes |-> b, units |-> <<>>]

\* the types whose ToBytes is written with defer_methods!, bytes.rs:134-155
\* and 220-222; a CStr or CString holds its bytes with the terminating NUL
PlainByteAdapters ==
    {"[u8; N]", "Vec<u8>", "Cow::Borrowed", "Cow::Owned", "CStr", "CString"}

OsAdapters == {"OsString", "Path", "PathBuf"}

\* mutant: a C string is converted with its terminating NUL
\* (CStr::to_bytes_with_nul)
defer_with_nul(v) ==
    IF v.kind \in {"[u8; N]", "Vec<u8>", "Cow::Borrowed", "Cow::Owned", "CStr"}
    THEN [v EXCEPT !.kind = "bytes"]
    ELSE IF v.kind = "CString" THEN [v EXCEPT !.kind = "CStr"]
    ELSE IF v.kind \in {"OsString", "Path"} THEN [v EXCEPT !.kind = "os"]
    ELSE IF v.kind = "PathBuf" THEN [v EXCEPT !.kind = "Path"]
    ELSE v

\* self.$convert_method() of defer_methods!, bytes.rs:119-132: as_slice for
\* [u8; N] (135) and Vec<u8> (155), deref for Cow (143), CStr::to_bytes for
\* CStr (153), as_c_str for CString (154), as_os_str for OsString (220) and
\* Path (221), as_path for PathBuf (222)
defer(v) ==
    IF v.kind \in {"[u8; N]", "Vec<u8>", "Cow::Borrowed", "Cow::Owned"}
    THEN [v EXCEPT !.kind = "bytes"]
    ELSE IF v.kind = "CStr"
    THEN [v EXCEPT !.kind = "bytes", !.bytes = Take(v.bytes, Len(v.bytes) - 1)]
    ELSE IF v.kind = "CString" THEN [v EXCEPT !.kind = "CStr"]
    ELSE IF v.kind \in {"OsString", "Path"} THEN [v EXCEPT !.kind = "os"]
    ELSE IF v.kind = "PathBuf" THEN [v EXCEPT !.kind = "Path"]
    ELSE v

\* mutant: an OsStr gives its internal bytes on every platform
to_bytes_internal(v) ==
    [inner |-> "Bytes", data |-> v.bytes]

RECURSIVE to_bytes(_)
\* ToBytes::to_bytes: [u8] at bytes.rs:108-110, OsStr at bytes.rs:179-208,
\* the other types at bytes.rs:122-124
to_bytes(v) ==
    IF v.kind \in PlainByteAdapters \cup OsAdapters THEN to_bytes(defer(v))
    ELSE IF v.kind = "os" /\ cfg_windows
    THEN [inner |-> "Str", data |-> to_string_lossy(v.bytes)]
    ELSE [inner |-> "Bytes", data |-> v.bytes]

RECURSIVE to_wide(_)
\* ToBytes::to_wide: [u8] at bytes.rs:114-116, OsStr at bytes.rs:212-217,
\* the other types at bytes.rs:128-130
to_wide(v) ==
    IF v.kind \in PlainByteAdapters \cup OsAdapters THEN to_wide(defer(v))
    ELSE IF v.kind = "os" THEN Some(encode_wide(v.bytes)) ELSE None

(***************************************************************************)
(* Console detection.                                                      *)
(***************************************************************************)
NoConsole == [some |-> FALSE, queries |-> <<>>]

\* GetConsoleMode(raw_handle, &mut mode) through check_syscall
GetConsoleMode(h) == [some |-> console_mode.ok, queries |-> <<h>>]

\* Console::from_handle, console.rs:32-48
from_handle(h) ==
    IF h = 0 \/ h = INVALID_HANDLE_VALUE THEN NoConsole
    ELSE GetConsoleMode(h)

\* Console::from_handle of the historical variant, windows.rs:24-40
legacy_from_handle(h) ==
    GetConsoleMode(h)

\* mutant: the answer of the first detection is kept for the later calls
to_console_cached(w) ==
    IF queried # <<>> THEN [some |-> cap, queries |-> <<>>]
    ELSE IF w.kind \in {"std", "buf"} THEN from_handle(w.handle)
    ELSE IF w.kind = "mock" THEN [some |-> w.is_console, queries |-> <<>>]
    ELSE NoConsole

\* WriteLossy::__to_console -> ToConsole::to_console: lib.rs:207-211 for the
\* standard streams, lib.rs:221-226 for Vec<u8>, tests.rs:36-41 for the mock;
\* lib.rs:166-168 for BufWriter and LineWriter, which ask the inner writer
\* (`self.get_ref().__to_console()`)
to_console(w) ==
    IF w.kind \in {"std", "buf"} THEN from_handle(w.handle)
    ELSE IF w.kind = "mock" THEN [some |-> w.is_console, queries |-> <<>>]
    ELSE NoConsole

(***************************************************************************)
(* The writer's write_all (std::io::Write).  A Vec<u8> and the mock of     *)
(* tests.rs accept everything; a standard stream may fail after a part.    *)
(***************************************************************************)
write_all(w, bytes) ==
    {[ret |-> Ok, accepted |-> bytes]}
    \cup (IF w.kind = "std" /\ bytes # <<>>
          THEN {[ret |-> OsError(k), accepted |-> Take(bytes, n)] :
                    k \in OsErrorKinds \ {"Interrupted"}, n \in 0..(Len(bytes) - 1)}
          ELSE {})

(***************************************************************************)
(* The console writer, console.rs:57-95.                                   *)
(***************************************************************************)
WrittenOk(n) == [tag |-> "Ok", written |-> n]

\* what WriteConsoleW, through check_syscall (console.rs:16-22), may report
\* when it is asked to write `length` units
WriteConsoleW(length) ==
    IF prim.kind = "atmost"
    THEN {WrittenOk(n) : n \in 1..Min(prim.k, length)}
    ELSE {WrittenOk(n) : n \in 0..length}
         \cup {OsError(k) : k \in {e \in OsErrorKinds :
                   e = "Interrupted" => interrupts < MaxInterrupts}}

\* mutant: the whole length of the buffer is requested
length_unclamped(s) == Len(s)

\* console.rs:58, `string.len().try_into().unwrap_or(u32::MAX)`: the count
\* of units requested of the primitive
length(s) == Min(Len(s), DwordMax)

\* Console::write_wide, console.rs:57-70: one call of the primitive on the
\* whole remaining buffer, its length clamped to the primitive's maximum
write_wide(s) == WriteConsoleW(length(s))

\* console.rs:76 and 94: the loop ends with Ok(()) once the buffer is empty
write_wide_all_head(s) == IF s = <<>> THEN Ok ELSE Pending

\* mutant: one successful call is taken to have written the whole buffer
write_wide_all_body_whole_buffer(s, r) ==
    IF r.tag = "Ok"
    THEN IF r.written = 0
         THEN [string |-> s, ret |-> CustomError("WriteZero")]
         ELSE [string |-> <<>>, ret |-> Ok]
    ELSE IF r.kind # "Interrupted"
         THEN [string |-> s, ret |-> r]
         ELSE [string |-> s, ret |-> Pending]

\* mutant: a write of zero units is retried
write_wide_all_body_retry_zero(s, r) ==
    IF r.tag = "Ok"
    THEN [string |-> Drop(s, r.written),
          ret |-> write_wide_all_head(Drop(s, r.written))]
    ELSE IF r.kind # "Interrupted"
         THEN [string |-> s, ret |-> r]
         ELSE [string |-> s, ret |-> Pending]

\* mutant: Interrupted is returned like any other error
write_wide_all_body_no_retry(s, r) ==
    IF r.tag = "Ok"
    THEN IF r.written = 0
         THEN [string |-> s, ret |-> CustomError("WriteZero")]
         ELSE [string |-> Drop(s, r.written),
               ret |-> write_wide_all_head(Drop(s, r.written))]
    ELSE [string |-> s, ret |-> r]

\* mutant: every OS error is retried
write_wide_all_body_retry_errors(s, r) ==
    IF r.tag = "Ok"
    THEN IF r.written = 0
         THEN [string |-> s, ret |-> CustomError("WriteZero")]
         ELSE [string |-> Drop(s, r.written),
               ret |-> write_wide_all_head(Drop(s, r.written))]
    ELSE [string |-> s, ret |-> Pending]

\* mutant: the cursor advances by the count requested, not the count reported
write_wide_all_body_requested(s, r) ==
    IF r.tag = "Ok"
    THEN IF r.written = 0
         THEN [string |-> s, ret |-> CustomError("WriteZero")]
         ELSE [string |-> Drop(s, length(s)),
               ret |-> write_wide_all_head(Drop(s, length(s)))]
    ELSE IF r.kind # "Interrupted"
         THEN [string |-> s, ret |-> r]
         ELSE [string |-> s, ret |-> Pending]

\* mutant: the primitive's error is unwrapped instead of returned
write_wide_all_body_unwrap(s, r) ==
    IF r.tag = "Ok"
    THEN IF r.written = 0
         THEN [string |-> s, ret |-> CustomError("WriteZero")]
         ELSE [string |-> Drop(s, r.written),
               ret |-> write_wide_all_head(Drop(s, r.written))]
    ELSE IF r.kind # "Interrupted"
         THEN [string |-> s, ret |-> Panicked]
         ELSE [string |-> s, ret |-> Pending]

\* console.rs:77-92: what one iteration does with the primitive's report r;
\* the slice `&string[written_length..]` of console.rs:85 panics when the
\* index is past the end
write_wide_all_body(s, r) ==
    IF r.tag = "Ok"
    THEN IF r.written = 0
         THEN [string |-> s, ret |-> CustomError("WriteZero")]
         ELSE IF r.written > Len(s)
         THEN [string |-> s, ret |-> Panicked]
         ELSE [string |-> Drop(s, r.written),
               ret |-> write_wide_all_head(Drop(s, r.written))]
    ELSE IF r.kind # "Interrupted"
         THEN [string |-> s, ret |-> r]
         ELSE [string |-> s, ret |-> Pending]

\* lib.rs:268: `return console.write_wide_all(&string.0)`
write_lossy_return(loop_result) == loop_result

\* the history of the primitive calls, kept for the properties
PrimHistory(s, r) ==
    /\ last_suffix' = s
    /\ last_length' = length(s)
    /\ last_outcome' = r
    /\ console_out' = console_out
                      \o (IF r.tag = "Ok" THEN Take(s, r.written) ELSE <<>>)
    /\ interrupts' = interrupts
                     + (IF r.tag = "Err" /\ r.kind = "Interrupted" THEN 1 ELSE 0)
    /\ zero_seen' = (zero_seen \/ (r.tag = "Ok" /\ r.written = 0))
    /\ failed_with' = IF failed_with = NoOutcome /\ r.tag = "Err"
                         /\ r.kind # "Interrupted"
                      THEN r ELSE failed_with

\* Console::write_wide_all, console.rs:72-95: one iteration of the loop
write_wide_all ==
    /\ pc = "write_wide_all"
    /\ \E r \in write_wide(string) :
        LET next == write_wide_all_body(string, r)
        IN  /\ PrimHistory(string, r)
            /\ string' = next.string
            /\ wide_result' = next.ret
            /\ result' = write_lossy_return(wide_result')
            /\ pc' = IF next.ret = Pending THEN "write_wide_all" ELSE "done"
    /\ UNCHANGED <<cfg_windows, api, writer, console_mode, prim, value, cap,
                   queried, wide_arg, write_all_args, buffer>>
    /\ UNCHANGED <<thr_vars, ses_vars>>

(***************************************************************************)
(* write_lossy, lib.rs:258-288.                                            *)
(***************************************************************************)
\* mutant: the repair is applied whatever the destination is
write_lossy_bytes_always_repaired(lossy, v) ==
    from_utf8_lossy(to_bytes(v).data)

\* mutant: the repair is never applied
write_lossy_bytes_never_repaired(lossy, v) ==
    to_bytes(v).data

\* lib.rs:273-286: the bytes handed to write_all
write_lossy_bytes(lossy, v) ==
    LET bs == to_bytes(v)
    IN  IF bs.inner = "Bytes"
        THEN (IF lossy THEN from_utf8_lossy(bs.data) ELSE bs.data)
        ELSE bs.data

\* mutant: a console alone sends the value down the byte path
takes_wide_path_never(console, wide) == FALSE

\* lib.rs:266-267: the console path is taken with a console and a wide view
takes_wide_path(console, wide) == console.some /\ wide.some

write_lossy ==
    /\ pc = "idle"
    /\ api = "write_lossy"
    /\ LET console == IF cfg_windows THEN to_console(writer) ELSE NoConsole
           wide == IF cfg_windows THEN to_wide(value) ELSE None
           lossy == console.some /\ ~wide.some
           bytes == write_lossy_bytes(lossy, value)
       IN  /\ cap' = console.some
           /\ queried' = queried \o console.queries
           /\ IF takes_wide_path(console, wide)
              THEN /\ string' = wide.units
                   /\ wide_arg' = wide
                   /\ wide_result' = write_wide_all_head(wide.units)
                   /\ result' = write_lossy_return(wide_result')
                   /\ pc' = IF wide_result' = Pending THEN "write_wide_all"
                             ELSE "done"
                   /\ UNCHANGED <<write_all_args, buffer>>
              ELSE \E o \in write_all(writer, bytes) :
                   /\ pc' = "done"
                   /\ result' = o.ret
                   /\ write_all_args' = Append(write_all_args, bytes)
                   /\ buffer' = buffer \o o.accepted
                   /\ UNCHANGED <<string, wide_arg, wide_result>>
    /\ UNCHANGED <<cfg_windows, api, writer, console_mode, prim, value,
                   console_out, last_suffix, last_length, last_outcome,
                   interrupts, zero_seen, failed_with>>
    /\ UNCHANGED <<thr_vars, ses_vars>>

(***************************************************************************)
(* The historical console layer: windows.rs and unix.rs.                   *)
(***************************************************************************)
\* windows.rs:76-80: `let written_length = self.write_wide(string)?;
\* string = &string[written_length..];`
write_os_body(s, r) ==
    IF r.tag = "Ok"
    THEN [string |-> Drop(s, r.written),
          ret |-> write_wide_all_head(Drop(s, r.written))]
    ELSE [string |-> s, ret |-> r]

\* write_os, windows.rs:84-97 and unix.rs:26-34
write_os ==
    /\ pc = "idle"
    /\ api = "write_os"
    /\ LET console == IF cfg_windows THEN legacy_from_handle(writer.handle)
                      ELSE NoConsole
           wide == IF cfg_windows THEN Some(encode_wide(value.bytes)) ELSE None
           bytes == IF cfg_windows THEN to_string_lossy(value.bytes)
                    ELSE value.bytes
       IN  /\ cap' = console.some
           /\ queried' = queried \o console.queries
           /\ IF console.some
              THEN /\ string' = wide.units
                   /\ wide_arg' = wide
                   /\ wide_result' = write_wide_all_head(wide.units)
                   /\ result' = wide_result'
                   /\ pc' = IF wide_result' = Pending THEN "write_os" ELSE "done"
                   /\ UNCHANGED <<write_all_args, buffer>>
              ELSE \E o \in write_all(writer, bytes) :
                   /\ pc' = "done"
                   /\ result' = o.ret
                   /\ write_all_args' = Append(write_all_args, bytes)
                   /\ buffer' = buffer \o o.accepted
                   /\ UNCHANGED <<string, wide_arg, wide_result>>
    /\ UNCHANGED <<cfg_windows, api, writer, console_mode, prim, value,
                   console_out, last_suffix, last_length, last_outcome,
                   interrupts, zero_seen, failed_with>>
    /\ UNCHANGED <<thr_vars, ses_vars>>

\* Console::write_os, windows.rs:73-81: one iteration of the loop
write_os_loop ==
    /\ pc = "write_os"
    /\ \E r \in write_wide(string) :
        LET next == write_os_body(string, r)
        IN  /\ PrimHistory(string, r)
            /\ string' = next.string
            /\ wide_result' = next.ret
            /\ result' = wide_result'
            /\ pc' = IF next.ret = Pending THEN "write_os" ELSE "done"
    /\ UNCHANGED <<cfg_windows, api, writer, console_mode, prim, value, cap,
                   queried, wide_arg, write_all_args, buffer>>
    /\ UNCHANGED <<thr_vars, ses_vars>>

(***************************************************************************)
(* println_lossy and eprintln_lossy, lib.rs:313-323, called by threads.    *)
(***************************************************************************)
\* threads calling println_lossy or eprintln_lossy, one call each
NThreads == 2
\* the most device writes the write of one value takes
MaxWrites == 2

Threads == 1..NThreads

Streams == {"stdout", "stderr"}

\* mutant: the lock is granted whoever holds it
lock_available_always(owner) == TRUE

\* lib.rs:320, Stdout::lock / Stderr::lock: granted when no thread holds it
lock_available(owner) == owner = 0

\* lib.rs:319-320: `let mut writer = writer.lock();`
lock(t) ==
    /\ th_pc[t] = "start"
    /\ lock_available(lock_owner[th_stream[t]])
    /\ lock_owner' = [lock_owner EXCEPT ![th_stream[t]] = t]
    /\ th_pc' = [th_pc EXCEPT ![t] = "value"]
    /\ UNCHANGED <<th_stream, th_left, stream_log>>
    /\ UNCHANGED <<call_vars, ses_vars>>

\* lib.rs:293: a failed write panics; unwinding drops the lock guard
panic(t) ==
    /\ th_pc' = [th_pc EXCEPT ![t] = "panicked"]
    /\ lock_owner' = [lock_owner EXCEPT ![th_stream[t]] = 0]
    /\ UNCHANGED <<th_stream, th_left, stream_log>>

\* lib.rs:321, `print_lossy!(&mut writer, value, $label)`: one write of the
\* value's write_lossy reaching the device, or its failure
write_value(t) ==
    /\ th_pc[t] = "value"
    /\ UNCHANGED <<call_vars, ses_vars>>
    /\ \/ /\ stream_log' = [stream_log EXCEPT ![th_stream[t]] =
                               Append(@, [thread |-> t, part |-> "value"])]
          /\ th_left' = [th_left EXCEPT ![t] = @ - 1]
          /\ th_pc' = [th_pc EXCEPT ![t] =
                               IF th_left[t] = 1 THEN "newline" ELSE "value"]
          /\ UNCHANGED <<th_stream, lock_owner>>
       \/ panic(t)

\* lib.rs:322, `print_lossy!(writer, b"\n", $label)`: the newline's write
write_newline(t) ==
    /\ th_pc[t] = "newline"
    /\ UNCHANGED <<call_vars, ses_vars>>
    /\ \/ /\ stream_log' = [stream_log EXCEPT ![th_stream[t]] =
                               Append(@, [thread |-> t, part |-> "newline"])]
          /\ th_pc' = [th_pc EXCEPT ![t] = "drop"]
          /\ UNCHANGED <<th_stream, th_left, lock_owner>>
       \/ panic(t)

\* lib.rs:322: the guard was moved into write_lossy and is dropped as that
\* call returns
drop_guard(t) ==
    /\ th_pc[t] = "drop"
    /\ lock_owner' = [lock_owner EXCEPT ![th_stream[t]] = 0]
    /\ th_pc' = [th_pc EXCEPT ![t] = "done"]
    /\ UNCHANGED <<call_vars, ses_vars>>
    /\ UNCHANGED <<th_stream, th_left, stream_log>>

\* the caller has made no call yet
IdleSession ==
    /\ issued = <<>>
    /\ flushed = 0

\* no thread is printing
IdleThreads ==
    /\ th_stream = [t \in Threads |-> "stdout"]
    /\ th_pc = [t \in Threads |-> "done"]
    /\ th_left = [t \in Threads |-> 0]
    /\ lock_owner = [s \in Streams |-> 0]
    /\ stream_log = [s \in Streams |-> <<>>]

(***************************************************************************)
(* The calls the model makes.                                              *)
(***************************************************************************)
\* 0 is the null handle; 4 stands for any other handle value
Handles == {0, INVALID_HANDLE_VALUE, 4}

Vec == [kind |-> "vec", is_console |-> FALSE, handle |-> 0]

Mock(is_console) == [kind |-> "mock", is_console |-> is_console, handle |-> 0]

Std(h) == [kind |-> "std", is_console |-> FALSE, handle |-> h]

Writers ==
    IF ~cfg_windows THEN {Vec, Std(4)}
    ELSE IF api = "write_os" THEN {Std(h) : h \in Handles}
    ELSE {Vec, Mock(FALSE), Mock(TRUE)} \cup {Std(h) : h \in Handles}

NotAConsole == [ok |-> FALSE, mode |-> 0]

\* the mode 7 is ENABLE_PROCESSED_INPUT | ENABLE_LINE_INPUT | ENABLE_ECHO_INPUT
ConsoleModes ==
    IF cfg_windows /\ writer.kind = "std"
    THEN {NotAConsole, [ok |-> TRUE, mode |-> 0], [ok |-> TRUE, mode |-> 7]}
    ELSE {NotAConsole}

Values ==
    (IF api = "write_os" THEN {}
     ELSE {BytesValue(b) : b \in SeqsUpTo(ByteAlphabet, MaxBytes)})
    \cup (IF cfg_windows
          THEN {OsValueWide(w) : w \in SeqsUpTo(UnitAlphabet, MaxUnits)}
          ELSE {OsValueBytes(b) : b \in SeqsUpTo(ByteAlphabet, MaxBytes)})

InitCall ==
    /\ cfg_windows \in BOOLEAN
    /\ api \in {"write_lossy", "write_os"}
    /\ writer \in Writers
    /\ console_mode \in ConsoleModes
    /\ value \in Values
    \* tests.rs:37-38: nothing with a wide view is written to the mock console
    /\ ~(writer.kind = "mock" /\ writer.is_console /\ value.kind = "os")
    /\ pc = "idle"
    /\ string = <<>>
    /\ result = Pending
    /\ wide_result = Pending
    /\ cap = FALSE
    /\ queried = <<>>
    /\ wide_arg = None
    /\ write_all_args = <<>>
    /\ buffer = <<>>
    /\ console_out = <<>>
    /\ last_suffix = <<>>
    /\ last_length = 0
    /\ last_outcome = NoOutcome
    /\ interrupts = 0
    /\ zero_seen = FALSE
    /\ failed_with = NoOutcome

Init ==
    /\ InitCall
    /\ prim = [kind |-> "os", k |-> 0]
    /\ IdleThreads
    /\ IdleSession

Next ==
    \/ write_lossy
    \/ write_wide_all
    \/ write_os
    \/ write_os_loop

Spec == Init /\ [][Next]_vars

(***************************************************************************)
(* A mock console write primitive that accepts at most k units per call,   *)
(* written to by write_lossy through a console.  The loop is sequential    *)
(* code that runs until it returns, hence the weak fairness.               *)
(***************************************************************************)
InitMock ==
    /\ InitCall
    /\ cfg_windows
    /\ api = "write_lossy"
    /\ writer = Std(4)
    /\ console_mode.ok
    /\ value.kind = "os"
    /\ prim \in {[kind |-> "atmost", k |-> k] : k \in 1..MaxUnits}
    /\ IdleThreads
    /\ IdleSession

NextMock ==
    \/ write_lossy
    \/ write_wide_all

SpecMock == InitMock /\ [][NextMock]_vars /\ WF_vars(NextMock)

(***************************************************************************)
(* One write_lossy call of an OsStr to a console, run to its return:        *)
(* write_lossy and the loop of Console::write_wide_all are sequential      *)
(* code, which goes on as long as it has a step to take.  The primitive    *)
(* fails with Interrupted at most MaxInterrupts times.                     *)
(***************************************************************************)
InitLoop ==
    /\ Init
    /\ api = "write_lossy"
    /\ cfg_windows
    /\ writer = Std(4)
    /\ console_mode = [ok |-> TRUE, mode |-> 7]
    /\ value.kind = "os"

NextLoop ==
    \/ write_lossy
    \/ write_wide_all

SpecLoop == InitLoop /\ [][NextLoop]_vars /\ WF_vars(NextLoop)

(***************************************************************************)
(* Threads printing concurrently; no write_lossy call of the other         *)
(* specifications is in progress.                                          *)
(***************************************************************************)
InitPrintln ==
    /\ cfg_windows = TRUE
    /\ api = "write_lossy"
    /\ writer = Std(4)
    /\ console_mode = NotAConsole
    /\ prim = [kind |-> "os", k |-> 0]
    /\ value = BytesValue(<<>>)
    /\ pc = "done"
    /\ string = <<>>
    /\ result = Pending
    /\ wide_result = Pending
    /\ cap = FALSE
    /\ queried = <<>>
    /\ wide_arg = None
    /\ write_all_args = <<>>
    /\ buffer = <<>>
    /\ console_out = <<>>
    /\ last_suffix = <<>>
    /\ last_length = 0
    /\ last_outcome = NoOutcome
    /\ interrupts = 0
    /\ zero_seen = FALSE
    /\ failed_with = NoOutcome
    /\ th_stream \in [Threads -> Streams]
    /\ th_pc = [t \in Threads |-> "start"]
    /\ th_left \in [Threads -> 1..MaxWrites]
    /\ lock_owner = [s \in Streams |-> 0]
    /\ stream_log = [s \in Streams |-> <<>>]
    /\ IdleSession

NextPrintln ==
    \/ \E t \in Threads : lock(t)
    \/ \E t \in Threads : write_value(t)
    \/ \E t \in Threads : write_newline(t)
    \/ \E t \in Threads : drop_guard(t)

SpecPrintln == InitPrintln /\ [][NextPrintln]_vars

(***************************************************************************)
(* A caller that makes several calls on one destination: write_lossy       *)
(* calls, direct writes to the sink (tests/specialization.rs:30-41), and,  *)
(* for a standard stream, a redirection between two calls.                 *)
(***************************************************************************)
\* how many writes the caller makes on the destination
MaxCalls == 3

\* a BufWriter or LineWriter around a standard stream
Buf(h) == [kind |-> "buf", is_console |-> FALSE, handle |-> h]

\* 'f' and the four-byte lead F1; 'f' and the high surrogate D83D
CallValues ==
    {BytesValue(b) : b \in {<<102>>, <<241>>}}
    \cup (IF cfg_windows
          THEN {OsValueWide(w) : w \in {<<102>>, <<55357>>}}
          ELSE {OsValueBytes(b) : b \in {<<102>>, <<241>>}})

DirectWrites == {<<102>>, <<241>>}

CallModes ==
    IF cfg_windows /\ writer.kind \in {"std", "buf"}
    THEN {NotAConsole, [ok |-> TRUE, mode |-> 7]}
    ELSE {NotAConsole}

\* the caller calls write_lossy(&mut writer, value), specialization.rs:34, 36
call ==
    /\ pc = "done"
    /\ Len(issued) < MaxCalls
    /\ \E v \in CallValues :
        /\ value' = v
        /\ issued' = Append(issued, [op |-> "write_lossy", value |-> v])
    /\ pc' = "idle"
    /\ result' = Pending
    /\ UNCHANGED <<cfg_windows, api, writer, console_mode, prim, string,
                   wide_result, cap, queried, wide_arg, write_all_args, buffer,
                   console_out, last_suffix, last_length, last_outcome,
                   interrupts, zero_seen, failed_with, flushed>>
    /\ UNCHANGED thr_vars

\* the caller writes to the sink itself: `writer.extend_from_slice(b"world")`
\* of specialization.rs:35 for a Vec<u8>, Write::write_all for a BufWriter or
\* LineWriter, which holds the bytes in its buffer
extend_from_slice ==
    /\ pc = "done"
    /\ writer.kind \in {"vec", "buf"}
    /\ Len(issued) < MaxCalls
    /\ \E d \in DirectWrites :
        /\ buffer' = buffer \o d
        /\ issued' = Append(issued, [op |-> "direct", value |-> BytesValue(d)])
    /\ UNCHANGED <<cfg_windows, api, writer, console_mode, prim, value, pc,
                   string, result, wide_result, cap, queried, wide_arg,
                   write_all_args, console_out, last_suffix, last_length,
                   last_outcome, interrupts, zero_seen, failed_with, flushed>>
    /\ UNCHANGED thr_vars

\* BufWriter::flush / LineWriter::flush: the wrapper passes the bytes it
\* holds on to its inner writer (lib.rs:172-173 wrap these two types)
flush ==
    /\ pc = "done"
    /\ writer.kind = "buf"
    /\ flushed < Len(buffer)
    /\ flushed' = Len(buffer)
    /\ UNCHANGED <<call_vars, thr_vars, issued>>

\* the stream is redirected between two calls: GetConsoleMode (console.rs:45)
\* answers differently from now on
redirect ==
    /\ pc = "done"
    /\ \E m \in CallModes \ {console_mode} : console_mode' = m
    /\ UNCHANGED <<cfg_windows, api, writer, prim, value, pc, string, result,
                   wide_result, cap, queried, wide_arg, write_all_args, buffer,
                   console_out, last_suffix, last_length, last_outcome,
                   interrupts, zero_seen, failed_with>>
    /\ UNCHANGED <<thr_vars, ses_vars>>

InitCalls ==
    /\ cfg_windows \in BOOLEAN
    /\ api = "write_lossy"
    /\ writer \in {Vec, Std(4), Buf(4)}
    /\ console_mode \in CallModes
    /\ prim = [kind |-> "os", k |-> 0]
    /\ value = BytesValue(<<>>)
    /\ pc = "done"
    /\ string = <<>>
    /\ result = Pending
    /\ wide_result = Pending
    /\ cap = FALSE
    /\ queried = <<>>
    /\ wide_arg = None
    /\ write_all_args = <<>>
    /\ buffer = <<>>
    /\ console_out = <<>>
    /\ last_suffix = <<>>
    /\ last_length = 0
    /\ last_outcome = NoOutcome
    /\ interrupts = 0
    /\ zero_seen = FALSE
    /\ failed_with = NoOutcome
    /\ IdleThreads
    /\ IdleSession

NextCalls ==
    \/ call
    \/ write_lossy
    \/ write_wide_all
    \/ extend_from_slice
    \/ flush
    \/ redirect

SpecCalls == InitCalls /\ [][NextCalls]_vars

(***************************************************************************)
(* One write_lossy call for every type that implements ToBytes, as in      *)
(* test_implementations of tests/specialization.rs and tests/os_str.rs.    *)
(***************************************************************************)
\* the stored form of the byte string b as the type `kind`: a C string has
\* the terminating NUL, an OS string on Windows is made from wide units
AdapterValue(kind, b) ==
    IF kind \in {"CStr", "CString"}
    THEN [kind |-> kind, bytes |-> Append(b, 0), units |-> <<>>]
    ELSE IF kind \in OsAdapters \cup {"os"}
    THEN [kind |-> kind, bytes |-> b,
          units |-> IF cfg_windows THEN encode_wide(b) ELSE <<>>]
    ELSE [kind |-> kind, bytes |-> b, units |-> <<>>]

RECURSIVE IsValidUtf8Text(_, _)
\* b is valid UTF-8 from position i on (std::str::from_utf8 succeeds)
IsValidUtf8Text(b, i) ==
    IF i > Len(b) THEN TRUE
    ELSE Utf8Chunk(b, i).ok /\ IsValidUtf8Text(b, i + Utf8Chunk(b, i).len)

\* every byte string as a plain-byte type; the OS string types hold text
\* (STRING of the tests, a &str)
AdapterValues ==
    {AdapterValue(k, b) : k \in PlainByteAdapters \cup {"bytes"},
                          b \in SeqsUpTo(ByteAlphabet, MaxBytes)}
    \cup {AdapterValue(k, b) :
              k \in OsAdapters \cup {"os"},
              b \in {t \in SeqsUpTo(ByteAlphabet, MaxBytes) :
                         IsValidUtf8Text(t, 1)}}

InitAdapters ==
    /\ cfg_windows \in BOOLEAN
    /\ api = "write_lossy"
    /\ writer \in (IF cfg_windows THEN {Vec, Mock(FALSE), Mock(TRUE), Std(4)}
                    ELSE {Vec, Std(4)})
    /\ console_mode \in CallModes
    /\ prim = [kind |-> "os", k |-> 0]
    /\ value \in AdapterValues
    \* tests.rs:37-38: nothing with a wide view is written to the mock console
    /\ ~(writer.kind = "mock" /\ writer.is_console
            /\ value.kind \in OsAdapters \cup {"os"})
    /\ pc = "idle"
    /\ string = <<>>
    /\ result = Pending
    /\ wide_result = Pending
    /\ cap = FALSE
    /\ queried = <<>>
    /\ wide_arg = None
    /\ write_all_args = <<>>
    /\ buffer = <<>>
    /\ console_out = <<>>
    /\ last_suffix = <<>>
    /\ last_length = 0
    /\ last_outcome = NoOutcome
    /\ interrupts = 0
    /\ zero_seen = FALSE
    /\ failed_with = NoOutcome
    /\ IdleThreads
    /\ IdleSession

NextAdapters ==
    \/ write_lossy
    \/ write_wide_all

SpecAdapters == InitAdapters /\ [][NextAdapters]_vars

(***************************************************************************)
(* Properties.                                                             *)
(***************************************************************************)
RECURSIVE IsValidUtf8At(_, _)
IsValidUtf8At(b, i) ==
    IF i > Len(b) THEN TRUE
    ELSE LET c == Utf8Chunk(b, i)
         IN  c.ok /\ IsValidUtf8At(b, i + c.len)

\* std::str::from_utf8(b).is_ok()
IsValidUtf8(b) == IsValidUtf8At(b, 1)

\* the unit at i is a surrogate that is not half of a surrogate pair
IsUnpaired(w, i) ==
    \/ IsHigh(w[i]) /\ ~(i < Len(w) /\ IsLow(w[i + 1]))
    \/ IsLow(w[i]) /\ ~(i > 1 /\ IsHigh(w[i - 1]))

IsWellFormedUtf16(w) == \A i \in 1..Len(w) : ~IsUnpaired(w, i)

\* w with every unpaired surrogate replaced by U+FFFD
ReplaceUnpaired(w) ==
    [i \in 1..Len(w) |-> IF IsUnpaired(w, i) THEN REPLACEMENT_CHARACTER ELSE w[i]]

\* the call is write_lossy and it has returned
Returned == api = "write_lossy" /\ pc = "done"

\* the value keeps its bytes as they are: a byte string, or an OsStr on a
\* platform where OsStr is a byte string
IsByteString == value.kind = "bytes" \/ ~cfg_windows

\* C1: write_lossy of a byte string b to a destination without a console
\* capability hands exactly b to the destination's write_all, once, and
\* succeeds: it returns what write_all returned, which is Ok for an in-memory
\* sink (Vec<u8>, the mock writer), whose content is then b.
C1_ExactOnNonConsole ==
    (Returned /\ ~cap /\ IsByteString) =>
        /\ write_all_args = <<value.bytes>>
        /\ console_out = <<>>
        /\ (result = Ok) = (buffer = value.bytes)
        /\ writer.kind \in {"vec", "mock"} => result = Ok

C1_Witness ==
    /\ Returned /\ ~cap /\ cfg_windows
    /\ writer = Mock(FALSE)
    /\ value.kind = "bytes"
    /\ ~IsValidUtf8(value.bytes)
    /\ buffer = value.bytes
    /\ result = Ok

\* C2: write_lossy of a byte string b without a wide view to a console hands
\* to write_all exactly the UTF-8-lossy repair of b, which is valid UTF-8 and
\* differs from b if and only if b is not valid UTF-8.
C2_LossyRepairOnConsole ==
    (Returned /\ cap /\ ~to_wide(value).some) =>
        /\ write_all_args = <<from_utf8_lossy(value.bytes)>>
        /\ console_out = <<>>
        /\ IsValidUtf8(write_all_args[1])
        /\ (write_all_args[1] # value.bytes) = ~IsValidUtf8(value.bytes)

C2_Witness ==
    /\ Returned /\ cap
    /\ value.kind = "bytes"
    /\ ~IsValidUtf8(value.bytes)
    /\ Len(value.bytes) = MaxBytes
    /\ write_all_args = <<from_utf8_lossy(value.bytes)>>
    /\ write_all_args[1] # value.bytes

\* C3: with a console capability and a wide view, write_lossy hands exactly
\* that wide view (the value's own units, nothing replaced) to
\* Console::write_wide_all and returns its outcome; write_all is never called.
C3_LosslessConsolePath ==
    (api = "write_lossy" /\ cap /\ to_wide(value).some) =>
        /\ wide_arg = to_wide(value)
        /\ wide_arg.units = value.units
        /\ console_out \o string = value.units
        /\ write_all_args = <<>>
        /\ buffer = <<>>
        /\ result = wide_result
        /\ (pc = "done") = (result # Pending)

C3_Witness ==
    /\ Returned /\ cap
    /\ value.kind = "os"
    /\ ~IsWellFormedUtf16(value.units)
    /\ console_out = value.units
    /\ write_all_args = <<>>
    /\ result = Ok

\* C4: with a console write primitive that accepts between 1 and k units per
\* call and never fails, Console::write_wide_all terminates with Ok, the
\* units consumed by the successive calls being the original sequence.
C4_PartialWriteConvergence ==
    <>(pc = "done" /\ result = Ok /\ console_out = value.units)

C4_Witness ==
    /\ pc = "done"
    /\ prim.k = 1
    /\ Len(value.units) = MaxUnits
    /\ Len(last_suffix) = 1
    /\ console_out = value.units
    /\ result = Ok

\* C5: a primitive call that reports success with zero units written ends
\* Console::write_wide_all at once with a WriteZero error made by the library
\* (not an OS error); the primitive is not called again.
C5_ZeroProgressTermination ==
    (api = "write_lossy" /\ zero_seen) =>
        /\ pc = "done"
        /\ last_outcome = WrittenOk(0)
        /\ last_suffix = string /\ string # <<>>
        /\ wide_result = CustomError("WriteZero")
        /\ result = wide_result
        /\ \A k \in OsErrorKinds : result # OsError(k)

C5_Witness ==
    /\ api = "write_lossy" /\ zero_seen
    /\ console_out # <<>>
    /\ result = CustomError("WriteZero")

\* C6: a primitive call that fails with Interrupted is not surfaced: the loop
\* goes on with the cursor unchanged and calls the primitive again with the
\* same suffix; one interruption and no other failure ends in Ok with the
\* whole buffer transferred once.
C6_InterruptRetry ==
    /\ [](api = "write_lossy" =>
            /\ last_outcome = OsError("Interrupted") =>
                   /\ pc = "write_wide_all"
                   /\ result = Pending
                   /\ string = last_suffix
            /\ (pc = "done" /\ interrupts = 1 /\ ~zero_seen
                    /\ failed_with = NoOutcome) =>
                   /\ result = Ok
                   /\ console_out = value.units)
    /\ [][(api = "write_lossy" /\ last_outcome = OsError("Interrupted"))
            => last_suffix' = last_suffix]_vars

C6_Witness ==
    /\ Returned
    /\ interrupts = 1
    /\ Len(value.units) = MaxUnits
    /\ console_out = value.units
    /\ result = Ok

\* C7 as stated: an OS failure other than Interrupted ends the loop at once
\* and the failure returned carries the number of units transferred before
\* the error together with the OS error.
C7_Original ==
    (api = "write_lossy" /\ failed_with # NoOutcome) =>
        /\ pc = "done"
        /\ last_outcome = failed_with
        /\ result.tag = "Err"
        /\ result.kind = failed_with.kind
        /\ "written" \in DOMAIN result
        /\ result.written = Len(console_out)

\* C7 as amended: an OS failure other than Interrupted ends the loop at once
\* (no further primitive call) and the caller gets that OS error unchanged
\* and nothing else: the io::Error carries no count; the units transferred
\* before the error are a prefix of the buffer and stay on the console.
C7_ErrorPropagatedUnchanged ==
    (api = "write_lossy" /\ failed_with # NoOutcome) =>
        /\ pc = "done"
        /\ last_outcome = failed_with
        /\ wide_result = failed_with
        /\ result = failed_with
        /\ DOMAIN result = {"tag", "kind", "repr"}
        /\ result.repr = "os"
        /\ console_out \o string = value.units

C7_Witness ==
    /\ api = "write_lossy"
    /\ failed_with = OsError("BrokenPipe")
    /\ console_out # <<>>
    /\ string # <<>>
    /\ result = OsError("BrokenPipe")

\* C9: an OsStr that is not valid Unicode, written to a destination that is
\* not a console: where there is no wide console API the output is the
\* string's bytes; on Windows it is not the string's own (WTF-8) encoding
\* but the UTF-8 of the units with every unpaired surrogate replaced by one
\* U+FFFD and every other character kept.
C9_OsStrToPipe ==
    (Returned /\ ~cap /\ value.kind = "os") =>
        IF cfg_windows
        THEN /\ write_all_args = <<from_wide(ReplaceUnpaired(value.units))>>
             /\ (write_all_args[1] # value.bytes)
                    = ~IsWellFormedUtf16(value.units)
        ELSE write_all_args = <<value.bytes>>

C9_Witness ==
    /\ Returned /\ ~cap /\ cfg_windows
    /\ writer.kind = "std"
    /\ value.kind = "os"
    /\ \E i \in 1..Len(value.units) : IsUnpaired(value.units, i)
    /\ \E i \in 1..Len(value.units) :
           IsHigh(value.units[i]) /\ ~IsUnpaired(value.units, i)
    /\ result = Ok
    /\ buffer = from_wide(ReplaceUnpaired(value.units))
    /\ buffer # value.bytes

\* C10 as stated: console detection never passes a null or invalid handle to
\* GetConsoleMode and answers None for it; for any other handle it answers
\* with a capability exactly when the query succeeds, whatever the mode.
C10_Original ==
    (cfg_windows /\ writer.kind = "std" /\ pc # "idle") =>
        IF writer.handle \in {0, INVALID_HANDLE_VALUE}
        THEN ~cap /\ queried = <<>>
        ELSE queried = <<writer.handle>> /\ cap = console_mode.ok

\* C10 for Console::from_handle of console.rs alone
C10_CurrentVariant ==
    api = "write_lossy" => C10_Original

\* C8: println_lossy and eprintln_lossy hold the stream's lock from before
\* the value's write until after the newline's write: on every stream no
\* write of another thread lies between a thread's value write and its
\* newline write.
C8_LockSpansPair ==
    \A s \in Streams :
        \A i, k \in 1..Len(stream_log[s]) :
            (/\ i < k
             /\ stream_log[s][i].thread = stream_log[s][k].thread
             /\ stream_log[s][i].part = "value"
             /\ stream_log[s][k].part = "newline")
            => \A j \in i..k : stream_log[s][j].thread = stream_log[s][i].thread

C8_Witness ==
    \E s \in Streams :
        /\ \A t \in Threads : th_stream[t] = s /\ th_pc[t] = "done"
        /\ Len(stream_log[s]) >= 2 * NThreads + 1

\* what a value puts on a destination that is not a console: its bytes, or
\* for an OsStr on Windows the UTF-8 of its units, U+FFFD for the unpaired
ExpectedBytes(v) ==
    IF v.kind = "os" /\ cfg_windows
    THEN from_wide(ReplaceUnpaired(v.units))
    ELSE v.bytes

\* the destination is a console at this moment
IsConsoleNow ==
    /\ cfg_windows
    /\ writer.kind \in {"std", "buf"}
    /\ writer.handle \notin {0, INVALID_HANDLE_VALUE}
    /\ console_mode.ok

\* C11: console status is derived anew by every write_lossy call: whatever
\* the earlier calls on the destination found and did, a call queries the
\* handle again and takes the wide console path, the lossy byte path or the
\* exact byte path according to the console status at that call and to that
\* call's value alone.
C11_NoCaching ==
    [][(pc = "idle" /\ pc' # "idle") =>
        /\ cap' = IsConsoleNow
        /\ (cfg_windows /\ writer.kind \in {"std", "buf"}) =>
               queried' = Append(queried, writer.handle)
        /\ IF IsConsoleNow /\ value.kind = "os"
           THEN /\ wide_arg' = Some(value.units)
                /\ string' = value.units
                /\ write_all_args' = write_all_args
           ELSE IF IsConsoleNow
           THEN write_all_args'
                    = Append(write_all_args, from_utf8_lossy(value.bytes))
           ELSE write_all_args' = Append(write_all_args, ExpectedBytes(value))
      ]_vars

\* two calls with OsStr values on one standard stream, redirected in between:
\* one went to the console as units, the other to write_all as bytes
C11_Witness ==
    /\ pc = "done"
    /\ writer = Std(4)
    /\ Len(issued) = 2
    /\ Len(queried) = 2
    /\ \A i \in 1..2 : issued[i].op = "write_lossy"
                          /\ issued[i].value.kind = "os"
                          /\ issued[i].value.units # <<>>
    /\ \/ /\ console_out = issued[1].value.units
          /\ write_all_args = <<ExpectedBytes(issued[2].value)>>
          /\ ~console_mode.ok
       \/ /\ console_out = issued[2].value.units
          /\ write_all_args = <<ExpectedBytes(issued[1].value)>>
          /\ console_mode.ok

RECURSIVE IssuedBytes(_)
\* the concatenation, in call order, of what the caller's writes put on a
\* byte sink
IssuedBytes(items) ==
    IF items = <<>> THEN <<>>
    ELSE ExpectedBytes(Head(items).value) \o IssuedBytes(Tail(items))

\* the writes the caller made that have returned
ReturnedWrites ==
    IF pc = "idle" THEN Take(issued, Len(issued) - 1) ELSE issued

\* C12: on a byte sink that is not a console (a Vec<u8>), whatever the
\* caller wrote to the sink itself between the calls, the sink holds the
\* concatenation in call order of every value written and every direct write;
\* a write_lossy call appends its value and no step changes what the sink
\* already held.
C12_OnlyAppends ==
    /\ [](writer.kind = "vec" => buffer = IssuedBytes(ReturnedWrites))
    /\ [][writer.kind = "vec" =>
            /\ Take(buffer', Len(buffer)) = buffer
            /\ (pc = "idle" /\ pc' = "done") =>
                   /\ buffer' = buffer \o ExpectedBytes(value)
                   /\ result' = Ok
         ]_vars

\* a write_lossy call, a direct write and a second write_lossy call, as in
\* test_multiple_writes, one of the values not being valid UTF-8
C12_Witness ==
    /\ pc = "done"
    /\ writer.kind = "vec"
    /\ Len(issued) = 3
    /\ issued[1].op = "write_lossy"
    /\ issued[2].op = "direct"
    /\ issued[3].op = "write_lossy"
    /\ \A i \in 1..3 : issued[i].value.bytes # <<>>
    /\ ~IsValidUtf8(issued[3].value.bytes)
    /\ buffer = issued[1].value.bytes \o issued[2].value.bytes
                    \o issued[3].value.bytes

\* the text a value was made from: its bytes, for a C string without the
\* terminating NUL
TextOf(v) ==
    IF v.kind \in {"CStr", "CString"}
    THEN SubSeq(v.bytes, 1, Len(v.bytes) - 1)
    ELSE v.bytes

\* C13: written to a destination that is not a console, a valid text gives
\* the same output as every type that implements ToBytes: the text's bytes,
\* for a C string without the terminating NUL.  The plain-byte types ([u8],
\* arrays, Vec<u8>, Cow of bytes, CStr, CString) never offer a wide view,
\* whatever bytes they hold: on a console they take the lossy byte path.
C13_AdaptersAgree ==
    /\ (Returned /\ ~cap /\ IsValidUtf8(TextOf(value))) =>
           /\ write_all_args = <<TextOf(value)>>
           /\ (result = Ok) = (buffer = TextOf(value))
           /\ writer.kind \in {"vec", "mock"} => result = Ok
    /\ (api = "write_lossy" /\ value.kind \in PlainByteAdapters \cup {"bytes"}) =>
           /\ ~to_wide(value).some
           /\ wide_arg = None
           /\ console_out = <<>>
           /\ (Returned /\ cap) =>
                  write_all_args = <<from_utf8_lossy(TextOf(value))>>

\* a CString of a text with a two-byte character, written to a Vec<u8>
C13_Witness ==
    /\ Returned /\ ~cap
    /\ writer.kind = "vec"
    /\ value.kind = "CString"
    /\ Len(value.bytes) = MaxBytes + 1
    /\ IsValidUtf8(TextOf(value))
    /\ \E i \in 1..MaxBytes : value.bytes[i] = 195
    /\ buffer = TextOf(value)
    /\ result = Ok

\* C14: write_lossy and Console::write_wide_all never panic: whatever the
\* value, the destination and the reports of the console write primitive
\* (any count up to the one requested, Interrupted, any other error), the
\* call is still running or has returned Ok or Err to its caller, an error
\* being a returned value.
C14_CoreNeverPanics ==
    api = "write_lossy" =>
        /\ result.tag \in {"Pending", "Ok", "Err"}
        /\ wide_result.tag \in {"Pending", "Ok", "Err"}
        /\ (pc = "done") = (result.tag \in {"Ok", "Err"})
        /\ (failed_with # NoOutcome \/ zero_seen) =>
               pc = "done" /\ result.tag = "Err"

\* the primitive was interrupted, wrote a part and then failed: the call
\* returned the error
C14_Witness ==
    /\ Returned
    /\ interrupts > 0
    /\ console_out # <<>>
    /\ failed_with = OsError("Other")
    /\ result = OsError("Other")

\* C15: every call of the console write primitive is handed the remaining
\* suffix and asked for min(n, maximum) units, n being the number of units
\* (not bytes) of that suffix, and reports no more than that; the next call
\* resumes where the reported count ends, so a buffer longer than the
\* maximum is transferred whole by successive calls.
C15_SingleCallClamp ==
    /\ [](api = "write_lossy" /\ last_outcome # NoOutcome =>
            /\ last_length = Min(Len(last_suffix), DwordMax)
            /\ last_outcome.tag = "Ok" => last_outcome.written <= last_length
            /\ (pc = "done" /\ result = Ok) => console_out = value.units)
    /\ [][(api = "write_lossy" /\ pc = "write_wide_all") =>
            /\ last_suffix' = string
            /\ last_outcome'.tag = "Ok" =>
                   string' = Drop(string, last_outcome'.written)
         ]_vars

\* a buffer longer than the maximum, of fewer units than bytes: the first
\* call was asked for the maximum, wrote it, and the loop goes on with the rest
C15_Witness ==
    /\ api = "write_lossy"
    /\ pc = "write_wide_all"
    /\ Len(value.units) > DwordMax
    /\ Len(value.bytes) > Len(value.units)
    /\ last_suffix = value.units
    /\ last_length = DwordMax
    /\ last_outcome = WrittenOk(DwordMax)
    /\ string = Drop(value.units, DwordMax)
    /\ string # <<>>

\* C16: at every iteration of Console::write_wide_all the units the
\* primitive consumed followed by the unwritten suffix are the original
\* sequence; a primitive call that reports Ok(n) moves the cursor by n and
\* puts the n units at the cursor on the console, any other report moves
\* nothing; so whatever the loop returns, the console holds a prefix of the
\* original sequence.
C16_LoopInvariant ==
    /\ []((api = "write_lossy" /\ wide_arg.some) =>
            /\ console_out \o string = wide_arg.units
            /\ console_out = Take(wide_arg.units, Len(console_out))
            /\ (pc = "done" /\ result = Ok) => string = <<>>)
    /\ [][(api = "write_lossy" /\ pc = "write_wide_all") =>
            IF last_outcome'.tag = "Ok"
            THEN /\ Len(string') = Len(string) - last_outcome'.written
                 /\ string' = Drop(string, last_outcome'.written)
                 /\ console_out'
                        = console_out \o Take(string, last_outcome'.written)
            ELSE string' = string /\ console_out' = console_out
         ]_vars

\* after an interruption and a partial write the primitive wrote nothing:
\* the loop returned an error with a part of the buffer on the console
C16_Witness ==
    /\ Returned
    /\ Len(value.units) = MaxUnits
    /\ interrupts > 0
    /\ zero_seen
    /\ result.tag = "Err"
    /\ console_out # <<>>
    /\ string # <<>>
    /\ console_out \o string = value.units

\* C17 as stated: in the historical loop Console::write_os of windows.rs a
\* primitive call that reports success with zero units written, units
\* remaining, ends the loop with a failure; the primitive is not called again.
C17_Original ==
    (api = "write_os" /\ zero_seen) =>
        /\ pc = "done"
        /\ result.tag = "Err"

\* C18: Console::write_wide_all terminates when the primitive fails with
\* Interrupted only finitely many times: every primitive call strictly
\* shortens the remaining suffix, or ends the loop with an error, or is an
\* Interrupted failure that is retried, and the call returns in the end.
C18_Termination ==
    /\ <>(pc = "done" /\ result.tag \in {"Ok", "Err"})
    /\ [][pc = "write_wide_all" =>
            \/ Len(string') < Len(string)
            \/ pc' = "done" /\ result'.tag = "Err"
            \/ /\ last_outcome' = OsError("Interrupted")
               /\ interrupts' = interrupts + 1
               /\ string' = string
               /\ pc' = "write_wide_all"
         ]_vars

\* the loop returned Ok after as many interruptions as the primitive makes
\* and one primitive call for every unit
C18_Witness ==
    /\ Returned
    /\ Len(value.units) = MaxUnits
    /\ interrupts = MaxInterrupts
    /\ Len(last_suffix) = 1
    /\ last_outcome = WrittenOk(1)
    /\ console_out = value.units
    /\ result = Ok

\* the bytes a BufWriter or LineWriter accepted and still holds
Held == SubSeq(buffer, flushed + 1, Len(buffer))

\* C19 as stated: through a BufWriter or LineWriter around a console the
\* content reaches the device in the order of the writes: no unit of a
\* write_lossy call is delivered to the device while bytes written earlier
\* are still held in the wrapper's buffer.
C19_Original ==
    [][(writer.kind = "buf" /\ console_out' # console_out) => Held = <<>>]_vars

====
